---- MODULE Spec2Model ----
(***************************************************************************)
(* BuildConnection (mozbuilddata/connection/builds.py): insert_build and   *)
(* get_build over the `builds` table of the store behind ConnectionBase.   *)
(*                                                                         *)
(* The two methods are modelled from builds.py.  ConnectionBase (the       *)
(* cursor, _insert_dict, _cursor_to_dicts) and the store itself are not    *)
(* part of builds.py; they are modelled from the specification's           *)
(* description of the collaborator and of the `builds` table.              *)
(***************************************************************************)
EXTENDS Integers, Sequences, FiniteSets, TLC

(* ---------------------------------------------------------------- bounds *)

\* Build identifiers are 1..MaxId.
MaxId == 2

\* Longest table the second specification (SpecAnyTable) starts from.
MaxRows == 3

(* ------------------------------------------------------------ value sets *)

Ids == 1..MaxId

Versions == {10, 20}

Branches == {100}

\* Columns of the builds table, in the order a row lists them.
Columns == <<"id", "version_", "branch">>

Keys == {Columns[i] : i \in 1..Len(Columns)}

ColumnValues(k) ==
    CASE k = "id" -> Ids
      [] k = "version_" -> Versions
      [] OTHER -> Branches

AllValues == Ids \cup Versions \cup Branches

\* Every mapping a caller can pass as params: any subset of the columns,
\* the keys "id" and "version_" included.
Dicts ==
    UNION { { d \in [S -> AllValues] : \A k \in S : d[k] \in ColumnValues(k) }
            : S \in SUBSET Keys }

\* Python's None.
None == [None |-> 0]

\* What a call that raised leaves its caller with: no value at all.
NoValue == [NoValue |-> 0]

NoError == "NoError"

\* What the store can raise on its own account (connectivity and the like).
StoreFaults == {NoError, "OperationalError"}

(* ------------------------------------------------- Python mappings, heap *)

\* d[k] = v
setitem(d, k, v) ==
    [x \in (DOMAIN d) \cup {k} |-> IF x = k THEN v ELSE d[x]]

\* dict.update: every pair of `other` is set in d.
update(d, other) ==
    [x \in (DOMAIN d) \cup (DOMAIN other) |->
        IF x \in DOMAIN other THEN other[x] ELSE d[x]]

\* The objects of one call are a sequence of mappings; a reference is an
\* index.  Reference 1 is the caller's params object.
ParamsRef == 1

\* A name bound to the very object of `ref`: no copy is made.
dict_alias(heap, ref) == [heap |-> heap, ref |-> ref]

\* dict(params): a new object holding the pairs of the object at `ref`.
dict_copy(heap, ref) ==
    [heap |-> Append(heap, heap[ref]), ref |-> Len(heap) + 1]

heap_setitem(heap, ref, k, v) ==
    [heap EXCEPT ![ref] = setitem(@, k, v)]

\* The row mapping started empty instead of from the caller's pairs.
build_dict_drops_params(build_id, version, params) ==
    LET h1 == heap_setitem(<<params, [k \in {} |-> 0]>>, 2, "id", build_id)
        h2 == heap_setitem(h1, 2, "version_", version)
    IN  [d |-> h2[2], params |-> h2[ParamsRef]]

\* The row mapping built with the caller's pairs applied last.
build_dict_params_win(build_id, version, params) ==
    LET c  == dict_copy(<<params>>, ParamsRef)
        h1 == heap_setitem(c.heap, c.ref, "id", build_id)
        h2 == heap_setitem(h1, c.ref, "version_", version)
    IN  [d |-> update(h2[c.ref], params), params |-> h2[ParamsRef]]

\* insert_build, the three statements before the store is called:
\*   d = dict(params); d['id'] = build_id; d['version_'] = version
\* Yields the mapping d and the caller's params object as the statements
\* leave it.
build_dict(build_id, version, params) ==
    LET c  == dict_copy(<<params>>, ParamsRef)
        h1 == heap_setitem(c.heap, c.ref, "id", build_id)
        h2 == heap_setitem(h1, c.ref, "version_", version)
    IN  [d |-> h2[c.ref], params |-> h2[ParamsRef]]

(* --------------------------------------------- the store, ConnectionBase *)

\* A stored row lists <<column, value>> pairs in column order.
dict_to_row(d) ==
    LET present == SelectSeq(Columns, LAMBDA k : k \in DOMAIN d)
    IN  [i \in 1..Len(present) |-> <<present[i], d[present[i]]>>]

row_to_dict(row) ==
    [k \in {row[i][1] : i \in 1..Len(row)} |->
        LET i == CHOOSE j \in 1..Len(row) : row[j][1] = k IN row[i][2]]

RowId(row) == row_to_dict(row)["id"]

HasId(table, id) == \E i \in 1..Len(table) : RowId(table[i]) = id

\* The table lists its rows in id order, rows of one id in arrival order:
\* `row` goes after the last row whose id is not greater than its own.
add_row(table, row) ==
    LET n == Cardinality({i \in 1..Len(table) : RowId(table[i]) <= RowId(row)})
    IN  SubSeq(table, 1, n) \o <<row>> \o SubSeq(table, n + 1, Len(table))

\* The generic insert with no uniqueness constraint behind it.
insert_dict_no_constraint(table, d, fault) ==
    IF fault # NoError
    THEN [table |-> table, raised |-> fault]
    ELSE [table |-> add_row(table, dict_to_row(d)), raised |-> NoError]

\* ConnectionBase._insert_dict(b'builds', d): the mapping becomes a new row;
\* the store refuses a second row with an id the table already holds.
_insert_dict(table, d, fault) ==
    IF fault # NoError
    THEN [table |-> table, raised |-> fault]
    ELSE IF HasId(table, d["id"])
    THEN [table |-> table, raised |-> "IntegrityError"]
    ELSE [table |-> add_row(table, dict_to_row(d)), raised |-> NoError]

\* c.execute(b'SELECT * FROM builds WHERE id=:id', {'id': build_id}): the
\* matching rows, in table order.
execute(table, build_id, fault) ==
    IF fault # NoError
    THEN [rows |-> <<>>, raised |-> fault]
    ELSE [rows |-> SelectSeq(table, LAMBDA r : RowId(r) = build_id),
          raised |-> NoError]

\* ConnectionBase._cursor_to_dicts(c)
_cursor_to_dicts(rows) == [i \in 1..Len(rows) |-> row_to_dict(rows[i])]

(* ------------------------------------------------------ BuildConnection *)

\* insert_build handing its mapping back to the caller.
insert_build_returns_d(table, build_id, version, params, fault) ==
    LET b == build_dict(build_id, version, params)
        r == _insert_dict(table, b.d, fault)
    IN  [table  |-> r.table,
         result |-> IF r.raised = NoError THEN b.d ELSE NoValue,
         raised |-> r.raised,
         params |-> b.params]

\* insert_build with the store's error caught and dropped.
insert_build_swallows(table, build_id, version, params, fault) ==
    LET b == build_dict(build_id, version, params)
        r == _insert_dict(table, b.d, fault)
    IN  [table |-> r.table, result |-> None, raised |-> NoError,
         params |-> b.params]

\* insert_build replacing the row that already has the id.
insert_build_replaces(table, build_id, version, params, fault) ==
    LET b    == build_dict(build_id, version, params)
        kept == SelectSeq(table, LAMBDA row : RowId(row) # b.d["id"])
        r    == _insert_dict(IF fault = NoError THEN kept ELSE table, b.d, fault)
    IN  [table  |-> r.table,
         result |-> IF r.raised = NoError THEN None ELSE NoValue,
         raised |-> r.raised,
         params |-> b.params]

\* BuildConnection.insert_build(build_id, version, params) against `table`.
\* Nothing is caught: what _insert_dict raises is what the caller sees, and a
\* call that returns falls off the end of the method (None).
insert_build(table, build_id, version, params, fault) ==
    LET b == build_dict(build_id, version, params)
        r == _insert_dict(table, b.d, fault)
    IN  [table  |-> r.table,
         result |-> IF r.raised = NoError THEN None ELSE NoValue,
         raised |-> r.raised,
         params |-> b.params]

\* The loop run to its end: the last mapping the cursor yields.
last_row(dicts) == IF Len(dicts) = 0 THEN None ELSE dicts[Len(dicts)]

\* get_build's loop:  for row in ...: return row   then   return None
first_row(dicts) == IF Len(dicts) = 0 THEN None ELSE dicts[1]

\* get_build whose loop body does not return.
get_build_never_returns_row(table, build_id, fault) ==
    LET c == execute(table, build_id, fault)
    IN  [result |-> IF c.raised = NoError THEN None ELSE NoValue,
         raised |-> c.raised]

\* get_build whose query has no WHERE clause.
get_build_no_where(table, build_id, fault) ==
    IF fault # NoError
    THEN [result |-> NoValue, raised |-> fault]
    ELSE [result |-> first_row(_cursor_to_dicts(table)), raised |-> NoError]

\* BuildConnection.get_build(build_id) against `table`.
get_build(table, build_id, fault) ==
    LET c == execute(table, build_id, fault)
    IN  IF c.raised # NoError
        THEN [result |-> NoValue, raised |-> c.raised]
        ELSE [result |-> first_row(_cursor_to_dicts(c.rows)),
              raised |-> NoError]

(* ----------------------------------------------------------------- state *)

VARIABLES
    builds,     \* the builds table: its rows, in the order the cursor yields
    params,     \* the caller's mapping object, passed to insert_build
    call,       \* the last call made on the object the caller now holds
    inserted    \* history: per id, what a call that returned inserted for it

vars == <<builds, params, call, inserted>>

NotInserted == [NotInserted |-> 0]

EmptyDict == [k \in {} |-> 0]

\* The caller's pairs other than 'id' and 'version_'.
Extra(p) == [k \in (DOMAIN p) \ {"id", "version_"} |-> p[k]]

NoCall ==
    [op |-> "none", build_id |-> 0, version |-> 0, params |-> None,
     fault |-> NoError, result |-> NoValue, raised |-> NoError]

Init ==
    /\ builds = <<>>
    /\ params = EmptyDict
    /\ call = NoCall
    /\ inserted = [id \in Ids |-> NotInserted]

\* The caller makes the mapping it will pass as params.
MakeParams(p) ==
    /\ p # params
    /\ params' = p
    /\ call' = NoCall
    /\ UNCHANGED <<builds, inserted>>

\* self.insert_build(build_id, version, params); call.params is the mapping
\* as it was passed, params' the caller's object as the call leaves it.
InsertBuild(build_id, version, fault) ==
    LET r == insert_build(builds, build_id, version, params, fault)
    IN  /\ builds' = r.table
        /\ params' = r.params
        /\ call' = [op |-> "insert_build", build_id |-> build_id,
                    version |-> version, params |-> params, fault |-> fault,
                    result |-> r.result, raised |-> r.raised]
        /\ inserted' = IF r.raised = NoError
                       THEN [inserted EXCEPT ![build_id] =
                               [version |-> version, params |-> Extra(params)]]
                       ELSE inserted

\* self.get_build(build_id)
GetBuild(build_id, fault) ==
    LET r == get_build(builds, build_id, fault)
    IN  /\ call' = [op |-> "get_build", build_id |-> build_id,
                    version |-> 0, params |-> None, fault |-> fault,
                    result |-> r.result, raised |-> r.raised]
        /\ UNCHANGED <<builds, params, inserted>>

Next ==
    \/ \E p \in Dicts : MakeParams(p)
    \/ \E build_id \in Ids, version \in Versions, fault \in StoreFaults :
          InsertBuild(build_id, version, fault)
    \/ \E build_id \in Ids, fault \in StoreFaults :
          GetBuild(build_id, fault)

Spec == Init /\ [][Next]_vars

\* Every row a table can hold.
Rows ==
    {dict_to_row(d) : d \in {x \in Dicts : {"id", "version_"} \subseteq DOMAIN x}}

Tables == UNION {[1..n -> Rows] : n \in 0..MaxRows}

\* A store with no uniqueness constraint on id can hold any rows at all, in
\* any order.
InitAnyTable ==
    /\ builds \in Tables
    /\ params = EmptyDict
    /\ call = NoCall
    /\ inserted = [id \in Ids |-> NotInserted]

NextAnyTable ==
    \E build_id \in Ids, fault \in StoreFaults : GetBuild(build_id, fault)

SpecAnyTable == InitAnyTable /\ [][NextAnyTable]_vars

(* ---------------------------------------------------------------- claims *)

InsertReturned(c) == c.op = "insert_build" /\ c.raised = NoError

GetReturned(c) == c.op = "get_build" /\ c.raised = NoError

InsertedIds == {id \in Ids : inserted[id] # NotInserted}

\* The record d carries what was inserted for `id`.
Carries(d, id) ==
    /\ d # None
    /\ d["id"] = id
    /\ d["version_"] = inserted[id].version
    /\ \A k \in DOMAIN inserted[id].params :
          k \in DOMAIN d /\ d[k] = inserted[id].params[k]

\* Indices of the rows of the table whose id is `id`.
Matching(id) == {i \in 1..Len(builds) : RowId(builds[i]) = id}

First(S) == CHOOSE i \in S : \A j \in S : i <= j

\* The sequence without its j-th element.
RemoveAt(seq, j) == SubSeq(seq, 1, j - 1) \o SubSeq(seq, j + 1, Len(seq))

\* C1: round trip.  A get_build(build_id) that returns, made at any point
\* after an insert_build(build_id, version, params) that returned, yields a
\* record whose 'id' is build_id, whose 'version_' is version and which holds
\* every pair of params other than 'id' and 'version_', whatever calls were
\* made in between.
C1_RoundTrip ==
    (GetReturned(call) /\ call.build_id \in InsertedIds)
        => Carries(call.result, call.build_id)

\* C1 witness: with every id inserted, a get returned a record with the
\* extra column for an id that is not the first row of the table.
C1_Witness ==
    /\ GetReturned(call)
    /\ InsertedIds = Ids
    /\ call.result # None
    /\ "branch" \in DOMAIN call.result
    /\ Len(builds) = MaxId
    /\ RowId(builds[1]) # call.build_id

\* C2: get_build(build_id) is None exactly when no call inserted build_id,
\* which is exactly when no row of the table has that id.
C2_NoneIffAbsent ==
    \A id \in Ids :
        LET r == get_build(builds, id, NoError).result
        IN  /\ (r = None) <=> (id \notin InsertedIds)
            /\ (r = None) <=> ~HasId(builds, id)
            /\ (GetReturned(call) /\ call.build_id = id) => call.result = r

\* C2 witness: a get for an id never inserted returned None while another
\* id was in the table.
C2_Witness ==
    /\ GetReturned(call)
    /\ call.result = None
    /\ call.build_id \notin InsertedIds
    /\ InsertedIds # {}

\* C3: the row an insert_build that returned has persisted has id = build_id
\* and version_ = version, whatever 'id' and 'version_' params held: the
\* table holds exactly one row with id = build_id, and its version_ is the
\* version argument.
C3_ExplicitArgumentsWin ==
    InsertReturned(call) =>
        /\ Cardinality(Matching(call.build_id)) = 1
        /\ \A i \in Matching(call.build_id) :
              /\ row_to_dict(builds[i])["id"] = call.build_id
              /\ row_to_dict(builds[i])["version_"] = call.version

\* C3 witness: an insert returned whose params held another id and another
\* version than the explicit arguments.
C3_Witness ==
    /\ InsertReturned(call)
    /\ {"id", "version_"} \subseteq DOMAIN call.params
    /\ call.params["id"] # call.build_id
    /\ call.params["version_"] # call.version

\* C4: no cross-record confusion.  For distinct inserted ids a and b,
\* get_build(a) is the record inserted for a and get_build(b) the one
\* inserted for b; whatever get_build(x) returns has id = x and is the row
\* of x.
C4_NoConfusion ==
    /\ \A a, b \in InsertedIds :
          a # b =>
              LET ra == get_build(builds, a, NoError).result
                  rb == get_build(builds, b, NoError).result
              IN  Carries(ra, a) /\ Carries(rb, b) /\ ra # rb
    /\ (GetReturned(call) /\ call.result # None)
          => /\ call.result["id"] = call.build_id
             /\ Matching(call.build_id) # {}
             /\ call.result =
                   row_to_dict(builds[First(Matching(call.build_id))])

\* C4 witness: two ids inserted with different versions, and a get returned
\* the record of the second row.
C4_Witness ==
    /\ GetReturned(call)
    /\ call.result # None
    /\ Len(builds) >= 2
    /\ RowId(builds[2]) = call.build_id
    /\ inserted[RowId(builds[1])].version # inserted[RowId(builds[2])].version

\* C5: when one or several rows match, get_build yields exactly the first
\* matching row in cursor order, as one mapping, and raises nothing.
C5_FirstRowOnly ==
    (call.op = "get_build" /\ call.fault = NoError
        /\ Matching(call.build_id) # {})
        => /\ call.raised = NoError
           /\ call.result = row_to_dict(builds[First(Matching(call.build_id))])

\* C5 witness: a get returned for an id that two different rows match, the
\* first of them not the first row of the table.
C5_Witness ==
    /\ GetReturned(call)
    /\ Cardinality(Matching(call.build_id)) >= 2
    /\ \E i, j \in Matching(call.build_id) : builds[i] # builds[j]
    /\ First(Matching(call.build_id)) > 1

\* C6: an insert_build that returns adds exactly one row, leaves every
\* earlier row as it was, and returns nothing (None).
C6_InsertAddsOneRow ==
    [][InsertReturned(call') =>
          /\ Len(builds') = Len(builds) + 1
          /\ \E j \in 1..Len(builds') : RemoveAt(builds', j) = builds
          /\ call'.result = None]_vars

\* C6 witness: an insert returned with an earlier row in the table.
C6_Witness ==
    /\ InsertReturned(call)
    /\ call.result = None
    /\ Len(builds) >= 2

\* C7: what the store raises reaches the caller unchanged, from both
\* methods; an insert_build for an id that has a row raises the store's
\* uniqueness violation and leaves the table as it was.
C7_ErrorsPropagate ==
    [][/\ (call'.op # "none" /\ call'.fault # NoError)
            => /\ call'.raised = call'.fault
               /\ call'.result = NoValue
               /\ builds' = builds
       /\ (call'.op = "insert_build" /\ call'.fault = NoError
              /\ HasId(builds, call'.build_id))
            => /\ call'.raised = "IntegrityError"
               /\ call'.result = NoValue
               /\ builds' = builds]_vars

\* C7 witness: an insert for an id already in the table, with another
\* version, raised the uniqueness violation.
C7_Witness ==
    /\ call.op = "insert_build"
    /\ call.raised = "IntegrityError"
    /\ call.build_id \in InsertedIds
    /\ inserted[call.build_id].version # call.version

\* C8: write-once.  No call changes or removes a row the table holds;
\* get_build leaves the table as it is, and a get_build repeated with no
\* call in between returns what it returned before.
C8_WriteOnce ==
    [][/\ \/ builds' = builds
          \/ \E j \in 1..Len(builds') : RemoveAt(builds', j) = builds
       /\ call'.op = "get_build" => builds' = builds
       /\ (GetReturned(call) /\ GetReturned(call')
              /\ call'.build_id = call.build_id)
            => call'.result = call.result]_vars

\* C8 witness: with two rows in the table, a get returned the first row,
\* inserted before the second was.
C8_Witness ==
    /\ GetReturned(call)
    /\ Len(builds) >= 2
    /\ RowId(builds[1]) = call.build_id
    /\ call.result = row_to_dict(builds[1])
    /\ InsertedIds = {RowId(builds[1]), RowId(builds[2])}

\* C9: the table holds at most one row per id.
C9_UniqueIds ==
    \A i, j \in 1..Len(builds) :
        RowId(builds[i]) = RowId(builds[j]) => i = j

\* C9 witness: a second insert for an id was made and refused, with every
\* id in the table.
C9_Witness ==
    /\ call.op = "insert_build"
    /\ call.raised = "IntegrityError"
    /\ Len(builds) = MaxId

\* C10: after insert_build, returned or raised, the caller's params object
\* holds exactly the pairs it held when it was passed.
C10_ParamsUntouched ==
    call.op = "insert_build" => params = call.params

\* C10 witness: params held another 'id' and 'version_' than the explicit
\* arguments, in a call the store refused for its duplicate id.
C10_Witness ==
    /\ call.op = "insert_build"
    /\ call.raised = "IntegrityError"
    /\ {"id", "version_"} \subseteq DOMAIN call.params
    /\ call.params["id"] # call.build_id
    /\ call.params["version_"] # call.version
    /\ params = call.params

====
